---- MODULE Spec2Model ----
(***************************************************************************)
(* Model of the concept routes of circa-backend (app/routes/concepts.py):  *)
(* five FastAPI handlers over one MongoDB collection, db.concepts.  Every  *)
(* awaited database operation (insert_one, find_one, update_one,           *)
(* delete_one, find().to_list) is one atomic step; the code a handler runs *)
(* between two awaits touches only its own locals and is folded into the   *)
(* step of the preceding await.                                            *)
(***************************************************************************)
EXTENDS Integers, Sequences, FiniteSets, TLC

(* ------------------------------ bounds -------------------------------- *)
\* Number of requests issued in one behaviour (one request per slot).
MaxRequests == 2
\* Largest number of documents already in the collection at start-up.
MaxSeed == 2
\* SpecList starts with ListCap - ListSpan .. ListCap + ListSpan documents.
ListSpan == 1

Requests == 1..MaxRequests

(* ------------------------- Python values ------------------------------ *)
\* Python's None; an Optional value is None or a one-element wrapper.
PyNone == <<>>
Some(v) == <<v>>

(* ------------------------- bson.ObjectId ------------------------------ *)
\* An id string is a sequence of characters; an ObjectId is 12 bytes.
OidStrLen == 24
OidBytes == 12

HexLower == <<"0","1","2","3","4","5","6","7","8","9","a","b","c","d","e","f">>
HexUpper == <<"0","1","2","3","4","5","6","7","8","9","A","B","C","D","E","F">>

IsHex(ch) == \E v \in 1..16 : ch = HexLower[v] \/ ch = HexUpper[v]
HexVal(ch) == (CHOOSE v \in 1..16 : ch = HexLower[v] \/ ch = HexUpper[v]) - 1

\* ObjectId(id) raises errors.InvalidId unless id is 24 hex characters.
InvalidId(s) == ~(Len(s) = OidStrLen /\ \A i \in 1..Len(s) : IsHex(s[i]))

\* ObjectId(id): the 12 bytes the 24 hex characters spell (either case).
ObjectId(s) == [i \in 1..OidBytes |-> 16 * HexVal(s[2 * i - 1]) + HexVal(s[2 * i])]

\* str(ObjectId): the canonical, lower-case rendering.
Str(oid) ==
  [i \in 1..OidStrLen |->
     IF i % 2 = 1 THEN HexLower[(oid[(i + 1) \div 2] \div 16) + 1]
                  ELSE HexLower[(oid[i \div 2] % 16) + 1]]

\* The same id spelled in upper case (a client may send either).
UpperStr(oid) ==
  [i \in 1..OidStrLen |->
     IF i % 2 = 1 THEN HexUpper[(oid[(i + 1) \div 2] \div 16) + 1]
                  ELSE HexUpper[(oid[i \div 2] % 16) + 1]]

\* The driver's generated ObjectId: 4 bytes of time, 5 bytes fixed for the
\* process, and a 3-byte big-endian counter that makes each one fresh.
ProcessPrefix == <<102, 171, 205, 18, 52, 86, 120, 154, 188>>
GenId(k) ==
  ProcessPrefix \o <<(k \div 65536) % 256, (k \div 256) % 256, k % 256>>

(* ------------------------- Embedding Provider ------------------------- *)
\* calculate_normalized_embeddings: an opaque deterministic function of its
\* text; the tensor is represented by the text it was computed from.
calculate_normalized_embeddings(text) == [tensor |-> text]
\* tensor_to_list: the tensor as a plain (non-empty) list.
tensor_to_list(t) == <<"emb", t.tensor>>
Embed(text) == tensor_to_list(calculate_normalized_embeddings(text))

(* ------------------------------ inputs -------------------------------- *)
Names == {"Foo", "X"}
Usages == {"bar", "baz"}
\* A vector a client sends in a request body.
ClientVec == <<"0.6", "0.8">>

ZeroId == [i \in 1..OidStrLen |-> "0"]
\* Path parameters: two ids the store assigns (the first in upper case), a
\* well-formed id the store never assigns, and two malformed ids.
RequestIds ==
  { UpperStr(GenId(1)), Str(GenId(2)), ZeroId,
    <<"x", "y", "z">>, [ZeroId EXCEPT ![OidStrLen] = "g"] }

\* ConceptModel bodies: id optional (ignored), embedding optional.
ConceptBodies ==
  [ id : {PyNone, Some(Str(GenId(2)))},
    name : {"Foo"}, usage : {"bar"},
    normalized_embedding : {PyNone, ClientVec} ]

\* UpdateConceptModel bodies: each field optional.
UpdateBodies ==
  [ name : {PyNone, Some("X")}, usage : {PyNone, Some("baz")} ]

(* ------------------------------ state --------------------------------- *)
VARIABLES
  concepts,     \* db.concepts: the documents, in natural (insertion) order
  nextCounter,  \* the ObjectId generator's counter
  embedCalls,   \* calls made to the Embedding Provider so far
  req           \* per request: handler, position, locals and response

vars == <<concepts, nextCounter, embedCalls, req>>

IdleReq ==
  [ op |-> "none", pc |-> "idle", id |-> <<>>, body |-> <<>>,
    oid |-> <<>>, concept |-> PyNone, upd |-> <<>>, resp |-> <<>> ]

SeedDoc(i) ==
  [ _id |-> GenId(i), name |-> "Foo", usage |-> "bar",
    normalized_embedding |-> PyNone ]
Seeded(n) == [i \in 1..n |-> SeedDoc(i)]

InitWith(sizes) ==
  /\ \E n \in sizes : concepts = Seeded(n) /\ nextCounter = n + 1
  /\ embedCalls = 0
  /\ req = [c \in Requests |-> IdleReq]

Init == InitWith(0..MaxSeed)

(* ------------------------ collection operations ----------------------- *)
\* Variant: the filter is ignored and the first document returned.
FindFirst(coll, oid) == IF Len(coll) = 0 THEN PyNone ELSE Some(coll[1])

\* find_one({"_id": oid}): None, or the matching document.
find_one(coll, oid) ==
  LET hits == SelectSeq(coll, LAMBDA d : d._id = oid)
  IN IF Len(hits) = 0 THEN PyNone ELSE Some(hits[1])

\* insert_one(doc): the driver generates an _id when doc has none.
insert_one(coll, doc, k) ==
  Append(coll, IF "_id" \in DOMAIN doc THEN doc ELSE [_id |-> GenId(k)] @@ doc)

\* $set: a field merge; fields the update does not name keep their value.
SetFields(doc, upd) ==
  [k \in DOMAIN doc \cup DOMAIN upd |-> IF k \in DOMAIN upd THEN upd[k] ELSE doc[k]]

\* Variant: the filter is dropped and every document is merged into.
UpdateEveryDocument(coll, oid, upd) ==
  [i \in 1..Len(coll) |-> SetFields(coll[i], upd)]

\* update_one({"_id": oid}, {"$set": upd}): merges into the first match.
update_one(coll, oid, upd) ==
  [i \in 1..Len(coll) |-> IF coll[i]._id = oid THEN SetFields(coll[i], upd) ELSE coll[i]]

\* Variant: the filter is dropped and the collection emptied.
DeleteEvery(coll, oid) == SubSeq(coll, 1, 0)

\* delete_one({"_id": oid}): removes the first match.
delete_one(coll, oid) == SelectSeq(coll, LAMBDA d : d._id # oid)
deleted_count(coll, oid) == IF find_one(coll, oid) = PyNone THEN 0 ELSE 1

\* Variant: the length is ignored.
ToListUncapped(coll, length) == coll

\* cursor.to_list(length): at most length documents, in cursor order.
to_list(coll, length) ==
  SubSeq(coll, 1, IF Len(coll) < length THEN Len(coll) ELSE length)

ListCap == 1000

(* --------------------------- responses -------------------------------- *)
\* ConceptModel as serialised with response_model_by_alias=False.
ConceptResponse(doc) ==
  [ id |-> Str(doc._id), name |-> doc.name, usage |-> doc.usage,
    normalized_embedding |-> doc.normalized_embedding ]

\* A handler returning a document (or None) under response_model=ConceptModel.
Respond(status, found) ==
  IF found = PyNone
  THEN [status |-> 500, body |-> "ResponseValidationError"]
  ELSE [status |-> status, body |-> ConceptResponse(found[1])]

HTTPException(status) == [status |-> status, body |-> "detail"]

Finish(c, r, resp) == req' = [req EXCEPT ![c] = [r EXCEPT !.pc = "done", !.resp = resp]]

(* ----------------------------- add_concept ---------------------------- *)
\* Variant: the id is not excluded and goes in as the document's _id.
model_dump_by_alias(body) ==
  IF body.id = PyNone
  THEN [ name |-> body.name, usage |-> body.usage,
         normalized_embedding |-> body.normalized_embedding ]
  ELSE [ _id |-> ObjectId(body.id[1]), name |-> body.name, usage |-> body.usage,
         normalized_embedding |-> body.normalized_embedding ]

\* concept.model_dump(by_alias=True, exclude=["id"])
model_dump_exclude_id(body) ==
  [ name |-> body.name, usage |-> body.usage,
    normalized_embedding |-> body.normalized_embedding ]

AddInsert(c, body) ==
  /\ req[c].pc = "idle"
  /\ concepts' = insert_one(concepts, model_dump_exclude_id(body), nextCounter)
  /\ nextCounter' = nextCounter + 1
  \* new_concept.inserted_id
  /\ req' = [req EXCEPT ![c] = [IdleReq EXCEPT !.op = "add", !.pc = "add_find",
                                  !.body = body,
                                  !.oid = concepts'[Len(concepts')]._id]]
  /\ UNCHANGED embedCalls

AddFind(c) ==
  /\ req[c].pc = "add_find"
  /\ Finish(c, req[c], Respond(201, find_one(concepts, req[c].oid)))
  /\ UNCHANGED <<concepts, nextCounter, embedCalls>>

(* ----------------------------- get_concepts --------------------------- *)
GetConcepts(c) ==
  /\ req[c].pc = "idle"
  /\ LET found == to_list(concepts, ListCap)
         output == [i \in 1..Len(found) |-> ConceptResponse(found[i])]
     IN Finish(c, [IdleReq EXCEPT !.op = "list"], [status |-> 200, body |-> output])
  /\ UNCHANGED <<concepts, nextCounter, embedCalls>>

(* --------------------------- get_concept_by_id ------------------------ *)
GetConceptById(c, id) ==
  /\ req[c].pc = "idle"
  /\ LET r == [IdleReq EXCEPT !.op = "get", !.id = id] IN
     IF InvalidId(id)
     THEN Finish(c, r, HTTPException(400))
     ELSE LET concept == find_one(concepts, ObjectId(id)) IN
          IF concept = PyNone
          THEN Finish(c, [r EXCEPT !.oid = ObjectId(id)], HTTPException(404))
          ELSE Finish(c, [r EXCEPT !.oid = ObjectId(id), !.concept = concept],
                      Respond(200, concept))
  /\ UNCHANGED <<concepts, nextCounter, embedCalls>>

(* ----------------------------- update_concept ------------------------- *)
\* {k: v for k, v in update_data.model_dump(by_alias=True).items() if v is not None}
NonNullFields(body) ==
  [k \in {f \in DOMAIN body : body[f] # PyNone} |-> body[k][1]]

Get(dict, key, default) == IF key \in DOMAIN dict THEN dict[key] ELSE default

\* Variant: the text is built from the stored fields only.
EmbedStringStored(dict, concept) == concept.name \o ": " \o concept.usage

\* f"{update_data_dict.get('name', concept['name'])}: {update_data_dict.get('usage', concept['usage'])}"
EmbedString(dict, concept) ==
  Get(dict, "name", concept.name) \o ": " \o Get(dict, "usage", concept.usage)

TouchesText(dict) == "name" \in DOMAIN dict \/ "usage" \in DOMAIN dict

\* Variant: the changeset is written without a recomputed embedding.
UpdateDataDictNoEmbed(body, concept) == NonNullFields(body)

\* Variant: the embedding is recomputed whatever the changeset holds.
UpdateDataDictAlwaysEmbed(body, concept) ==
  ("normalized_embedding" :> Embed(EmbedString(NonNullFields(body), concept)))
    @@ NonNullFields(body)

\* update_data_dict as it stands when update_one is reached.
UpdateDataDict(body, concept) ==
  LET dict == NonNullFields(body) IN
  IF TouchesText(dict)
  THEN ("normalized_embedding" :> Embed(EmbedString(dict, concept))) @@ dict
  ELSE dict

UpdateFind(c, id, body) ==
  /\ req[c].pc = "idle"
  /\ LET r == [IdleReq EXCEPT !.op = "update", !.id = id, !.body = body] IN
     IF InvalidId(id)
     THEN Finish(c, r, HTTPException(400)) /\ UNCHANGED embedCalls
     ELSE LET concept == find_one(concepts, ObjectId(id)) IN
          IF concept = PyNone
          THEN /\ Finish(c, [r EXCEPT !.oid = ObjectId(id)], HTTPException(404))
               /\ UNCHANGED embedCalls
          ELSE LET dict == UpdateDataDict(body, concept[1])
                   rr == [r EXCEPT !.oid = ObjectId(id), !.concept = concept,
                                   !.upd = dict]
               IN /\ embedCalls' = IF "normalized_embedding" \in DOMAIN dict
                                   THEN embedCalls + 1 ELSE embedCalls
                  /\ IF DOMAIN dict # {}
                     THEN req' = [req EXCEPT ![c] = [rr EXCEPT !.pc = "update_one"]]
                     ELSE Finish(c, rr, Respond(200, concept))
  /\ UNCHANGED <<concepts, nextCounter>>

UpdateWrite(c) ==
  /\ req[c].pc = "update_one"
  /\ concepts' = update_one(concepts, req[c].concept[1]._id, req[c].upd)
  /\ req' = [req EXCEPT ![c].pc = "update_find"]
  /\ UNCHANGED <<nextCounter, embedCalls>>

UpdateReread(c) ==
  /\ req[c].pc = "update_find"
  /\ Finish(c, req[c], Respond(200, find_one(concepts, req[c].concept[1]._id)))
  /\ UNCHANGED <<concepts, nextCounter, embedCalls>>

(* ----------------------------- delete_concept ------------------------- *)
DeleteConcept(c, id) ==
  /\ req[c].pc = "idle"
  /\ LET r == [IdleReq EXCEPT !.op = "delete", !.id = id] IN
     IF InvalidId(id)
     THEN \* ObjectId(id) raises outside any try: an unhandled exception
          /\ Finish(c, r, [status |-> 500, body |-> "InvalidId"])
          /\ UNCHANGED concepts
     ELSE /\ concepts' = delete_one(concepts, ObjectId(id))
          /\ IF deleted_count(concepts, ObjectId(id)) = 1
             THEN Finish(c, [r EXCEPT !.oid = ObjectId(id)],
                         [status |-> 200, body |-> "deleted"])
             ELSE Finish(c, [r EXCEPT !.oid = ObjectId(id)], HTTPException(404))
  /\ UNCHANGED <<nextCounter, embedCalls>>

(* --------------------------- specifications --------------------------- *)
Step(c) ==
  \/ \E body \in ConceptBodies : AddInsert(c, body)
  \/ AddFind(c)
  \/ GetConcepts(c)
  \/ \E id \in RequestIds : GetConceptById(c, id)
  \/ \E id \in RequestIds, body \in UpdateBodies : UpdateFind(c, id, body)
  \/ UpdateWrite(c)
  \/ UpdateReread(c)
  \/ \E id \in RequestIds : DeleteConcept(c, id)

\* Requests run in parallel: any handler may take its next step.
Next == \E c \in Requests : Step(c)

Spec == Init /\ [][Next]_vars

\* No other request is between its first and last step.
Alone(c) == \A d \in Requests \ {c} : req[d].pc \in {"idle", "done"}

\* Requests run one after the other.
NextSeq ==
  \/ \E c \in Requests, body \in ConceptBodies : Alone(c) /\ AddInsert(c, body)
  \/ \E c \in Requests : Alone(c) /\ AddFind(c)
  \/ \E c \in Requests : Alone(c) /\ GetConcepts(c)
  \/ \E c \in Requests, id \in RequestIds : Alone(c) /\ GetConceptById(c, id)
  \/ \E c \in Requests, id \in RequestIds, body \in UpdateBodies :
       Alone(c) /\ UpdateFind(c, id, body)
  \/ \E c \in Requests : Alone(c) /\ UpdateWrite(c)
  \/ \E c \in Requests : Alone(c) /\ UpdateReread(c)
  \/ \E c \in Requests, id \in RequestIds : Alone(c) /\ DeleteConcept(c, id)

SpecSeq == Init /\ [][NextSeq]_vars

\* A collection seeded around the list ceiling (and the small ones), with
\* creates, deletes and listings run one after the other.
InitList == InitWith((0..MaxSeed) \cup ((ListCap - ListSpan)..(ListCap + ListSpan)))

NextList ==
  \/ \E c \in Requests, body \in ConceptBodies : Alone(c) /\ AddInsert(c, body)
  \/ \E c \in Requests : Alone(c) /\ AddFind(c)
  \/ \E c \in Requests : Alone(c) /\ GetConcepts(c)
  \/ \E c \in Requests, id \in RequestIds : Alone(c) /\ DeleteConcept(c, id)

SpecList == InitList /\ [][NextList]_vars

(* ------------------------ vocabulary of the claims -------------------- *)
\* The step in which request c enters handler op (its first database call).
Started(c, op) == req[c].pc = "idle" /\ req'[c].pc # "idle" /\ req'[c].op = op
\* The step in which request c returns its response.
Completed(c) == req[c].pc # "done" /\ req'[c].pc = "done"

HasId(coll, oid) == \E i \in 1..Len(coll) : coll[i]._id = oid
DocOf(coll, oid) == coll[CHOOSE i \in 1..Len(coll) : coll[i]._id = oid]

\* The changeset value if present, otherwise the stored value.
Effective(opt, stored) == IF opt = PyNone THEN stored ELSE opt[1]
ExpectedEmbedding(body, before) ==
  Embed(Effective(body.name, before.name) \o ": " \o Effective(body.usage, before.usage))
TextInBody(body) == body.name # PyNone \/ body.usage # PyNone

\* Every value the Embedding Provider can return on the texts in play.
ProviderValues == { Embed(n \o ": " \o u) : n \in Names, u \in Usages }

Range(seq) == { seq[i] : i \in 1..Len(seq) }

(* ------------------------------ C1 ------------------------------------ *)
\* C1: run without interference from other requests, every successful Update
\* whose changeset contains name and/or usage resolves the stored record,
\* and the record it persists and returns has normalized_embedding equal to
\* Embed(effective_name + ": " + effective_usage), the effective value being
\* the changeset's if present and the one stored before the Update otherwise.
C1_UpdateRefreshesEmbedding ==
  [][\A c \in Requests :
       /\ (Started(c, "update") /\ req'[c].pc = "update_one") =>
            /\ HasId(concepts, req'[c].oid)
            /\ req'[c].concept = Some(DocOf(concepts, req'[c].oid))
       /\ (/\ req'[c].op = "update" /\ Completed(c)
           /\ req'[c].resp.status = 200 /\ TextInBody(req'[c].body)) =>
            LET body == req'[c].body
                before == req'[c].concept[1]
                want == ExpectedEmbedding(body, before)
            IN /\ HasId(concepts', req'[c].oid)
               /\ LET stored == DocOf(concepts', req'[c].oid)
                  IN /\ stored.normalized_embedding = want
                     /\ stored.name = Effective(body.name, before.name)
                     /\ stored.usage = Effective(body.usage, before.usage)
                     /\ req'[c].resp.body = ConceptResponse(stored)
  ]_vars

\* The spec's scenario: a record {Foo, bar} updated with {usage: "baz"}.
C1_Witness ==
  \E c \in Requests :
    /\ req[c].op = "update" /\ req[c].pc = "done" /\ req[c].resp.status = 200
    /\ req[c].body = [name |-> PyNone, usage |-> Some("baz")]
    /\ req[c].resp.body.name = "Foo" /\ req[c].resp.body.usage = "baz"
    /\ req[c].resp.body.normalized_embedding = Embed("Foo: baz")

(* ------------------------------ C2 ------------------------------------ *)
\* C2: in every reachable state, under any interleaving of Update requests,
\* a record written by a completed Update that touched name or usage has
\* normalized_embedding = Embed(name + ": " + usage) of its stored fields.
C2_EmbeddingAlwaysConsistent ==
  \A i \in 1..Len(concepts) :
    (\E c \in Requests :
        /\ req[c].op = "update" /\ req[c].pc = "done"
        /\ req[c].resp.status = 200 /\ TextInBody(req[c].body)
        /\ req[c].oid = concepts[i]._id)
    => concepts[i].normalized_embedding
         = Embed(concepts[i].name \o ": " \o concepts[i].usage)

(* ------------------------------ C3 ------------------------------------ *)
\* C3 (as claimed): a stored normalized_embedding is absent or a value of
\* the Embedding Provider, never one from a request body, and every write
\* of name or usage (Create's insert, Update's merge) carries a refreshed
\* normalized_embedding in the same write.
C3_NoClientSetEmbedding ==
  /\ \A i \in 1..Len(concepts) :
       concepts[i].normalized_embedding \in {PyNone} \cup ProviderValues
  /\ \A c \in Requests :
       /\ (req[c].op = "add" /\ req[c].pc \in {"add_find", "done"}) =>
            model_dump_exclude_id(req[c].body).normalized_embedding
              = Embed(req[c].body.name \o ": " \o req[c].body.usage)
       /\ (req[c].op = "update" /\ req[c].pc \in {"update_one", "update_find"}) =>
            /\ "normalized_embedding" \in DOMAIN req[c].upd
            /\ req[c].upd.normalized_embedding
                 = ExpectedEmbedding(req[c].body, req[c].concept[1])

\* C3 (amended): only Create takes an embedding from the request body, and
\* stores it as supplied without calling the Embedding Provider; an Update
\* never does: every document value an Update writes belongs to its target,
\* comes from a changeset touching name or usage, and carries the provider's
\* value for the effective text; no other step changes a document.
C3_OnlyCreateTakesClientEmbedding ==
  [][/\ \A c \in Requests :
          Started(c, "add") =>
            /\ concepts'[Len(concepts')].normalized_embedding
                 = req'[c].body.normalized_embedding
            /\ embedCalls' = embedCalls
     /\ \A d \in Range(concepts') \ Range(concepts) :
          \/ \E c \in Requests :
               /\ Started(c, "add")
               /\ d = concepts'[Len(concepts')]
               /\ d._id = req'[c].oid
          \/ \E c \in Requests :
               /\ req[c].pc = "update_one" /\ req'[c].pc = "update_find"
               /\ d._id = req[c].oid
               /\ TextInBody(req[c].body)
               /\ d.normalized_embedding
                    = ExpectedEmbedding(req[c].body, req[c].concept[1])
  ]_vars

\* A record created with a client's vector, then refreshed by an Update.
C3_Witness ==
  \E c, u \in Requests :
    /\ req[c].op = "add" /\ req[c].pc = "done"
    /\ req[c].body.normalized_embedding = ClientVec
    /\ req[c].resp.status = 201
    /\ req[c].resp.body.normalized_embedding = ClientVec
    /\ req[u].op = "update" /\ req[u].pc = "done" /\ req[u].resp.status = 200
    /\ req[u].oid = req[c].oid
    /\ req[u].resp.body.normalized_embedding \in ProviderValues

(* ------------------------------ C4 ------------------------------------ *)
\* The fields an Update's changeset holds: the supplied non-null fields,
\* plus normalized_embedding when it is recomputed.
Changeset(body) ==
  { f \in {"name", "usage"} : body[f] # PyNone }
    \cup (IF TextInBody(body) THEN {"normalized_embedding"} ELSE {})

\* C4: an Update's write is a partial field merge: in the target every field
\* outside the changeset keeps its prior value (the supplied fields take the
\* supplied values), every other record is unchanged, and the Update's
\* other steps change nothing in the store.
C4_UpdateIsFieldMerge ==
  [][\A c \in Requests :
       /\ (req[c].pc = "update_one" /\ req'[c].pc = "update_find") =>
            /\ Len(concepts') = Len(concepts)
            /\ \A i \in 1..Len(concepts) :
                 IF concepts[i]._id = req[c].oid
                 THEN /\ DOMAIN concepts'[i] = DOMAIN concepts[i]
                      /\ \A f \in DOMAIN concepts[i] :
                           IF f \in Changeset(req[c].body)
                           THEN f \in {"name", "usage"} =>
                                  concepts'[i][f] = req[c].body[f][1]
                           ELSE concepts'[i][f] = concepts[i][f]
                 ELSE concepts'[i] = concepts[i]
       /\ (Started(c, "update") \/ (req'[c].op = "update" /\ Completed(c))) =>
            concepts' = concepts
  ]_vars

\* Update {name: "X"} has written its target beside an untouched record.
C4_Witness ==
  \E c \in Requests :
    /\ req[c].op = "update" /\ req[c].pc \in {"update_find", "done"}
    /\ req[c].body = [name |-> Some("X"), usage |-> PyNone]
    /\ Len(concepts) = 2
    /\ \E i, j \in 1..2 :
         /\ concepts[i]._id = req[c].oid
         /\ concepts[i].name = "X" /\ concepts[i].usage = "bar"
         /\ concepts[j] = SeedDoc(j) /\ i # j

(* ------------------------------ C5 ------------------------------------ *)
\* C5: an Update of an existing id whose body is empty or all null returns
\* at once the record exactly as stored, writes nothing and does not call
\* the Embedding Provider; the store being unchanged, repeating it gives
\* the same result.
C5_EmptyUpdateIsNoOp ==
  [][\A c \in Requests :
       (/\ Started(c, "update")
        /\ ~TextInBody(req'[c].body)
        /\ ~InvalidId(req'[c].id)
        /\ HasId(concepts, ObjectId(req'[c].id))) =>
         /\ req'[c].pc = "done"
         /\ req'[c].resp =
              [ status |-> 200,
                body |-> ConceptResponse(DocOf(concepts, ObjectId(req'[c].id))) ]
         /\ UNCHANGED <<concepts, nextCounter, embedCalls>>
  ]_vars

\* The empty Update issued twice on one record: same answer, no provider call.
C5_Witness ==
  \E c, d \in Requests :
    /\ c # d
    /\ req[c].op = "update" /\ req[c].pc = "done"
    /\ req[d].op = "update" /\ req[d].pc = "done"
    /\ req[c].body = [name |-> PyNone, usage |-> PyNone]
    /\ req[d].body = req[c].body
    /\ req[c].resp.status = 200 /\ req[d].resp.status = 200
    /\ req[d].resp.body = req[c].resp.body
    /\ req[c].oid = req[d].oid
    /\ embedCalls = 0
    /\ concepts = Seeded(Len(concepts))

(* ------------------------------ C6 ------------------------------------ *)
\* What Create does apart from the choice of the id: it appends one record
\* with the supplied name and usage and an id no stored record has, and
\* returns that record with 201.
CreateStores(c) ==
  /\ Started(c, "add") =>
       LET body == req'[c].body
           new == concepts'[Len(concepts')]
       IN /\ concepts' = Append(concepts, new)
          /\ new.name = body.name /\ new.usage = body.usage
          /\ ~HasId(concepts, new._id)
          /\ req'[c].oid = new._id
  /\ (req'[c].op = "add" /\ Completed(c)) =>
       /\ req'[c].resp.status = 201
       /\ req'[c].resp.body.id = Str(req'[c].oid)
       /\ req'[c].resp.body.name = req'[c].body.name
       /\ req'[c].resp.body.usage = req'[c].body.usage
       /\ HasId(concepts', req'[c].oid)
       /\ req'[c].resp.body = ConceptResponse(DocOf(concepts', req'[c].oid))

C7_ResolveById ==
  [][\A c \in Requests :
       (Started(c, "get") \/ Started(c, "update")) =>
         LET id == req'[c].id IN
         IF InvalidId(id)
         THEN /\ req'[c].pc = "done" /\ req'[c].resp.status = 400
              /\ UNCHANGED <<concepts, embedCalls>>
         ELSE IF ~HasId(concepts, ObjectId(id))
         THEN /\ req'[c].pc = "done" /\ req'[c].resp.status = 404
              /\ UNCHANGED <<concepts, embedCalls>>
         ELSE /\ concepts' = concepts
              /\ req'[c].concept = Some(DocOf(concepts, ObjectId(id)))
              /\ req'[c].op = "get" =>
                   /\ req'[c].pc = "done"
                   /\ req'[c].resp =
                        [ status |-> 200,
                          body |-> ConceptResponse(DocOf(concepts, ObjectId(id))) ]
  ]_vars

\* A FindById refused with 400 and an Update with 404, over a non-empty store.
C7_Witness ==
  \E c, d \in Requests :
    /\ req[c].op = "get" /\ req[c].pc = "done"
    /\ InvalidId(req[c].id) /\ req[c].resp.status = 400
    /\ req[d].op = "update" /\ req[d].pc = "done"
    /\ req[d].id = ZeroId /\ req[d].resp.status = 404
    /\ TextInBody(req[d].body)
    /\ embedCalls = 0
    /\ concepts = Seeded(2)

(* ------------------------------ C8 ------------------------------------ *)
\* C8: Delete of a stored id removes that record and no other and answers
\* 200; an id the store assigned and no longer holds never comes back, so
\* every later Delete of it answers 404 and changes nothing, and a FindById
\* of it answers 404.
C8_DeleteOnceThenNotFound ==
  [][/\ \A c \in Requests :
          (Started(c, "delete") /\ ~InvalidId(req'[c].id)) =>
            LET oid == ObjectId(req'[c].id) IN
            IF HasId(concepts, oid)
            THEN /\ req'[c].pc = "done" /\ req'[c].resp.status = 200
                 /\ ~HasId(concepts', oid)
                 /\ Len(concepts') = Len(concepts) - 1
                 /\ \A d \in Range(concepts) : d._id # oid => d \in Range(concepts')
            ELSE /\ req'[c].pc = "done" /\ req'[c].resp.status = 404
                 /\ concepts' = concepts
     /\ \A k \in 1..(nextCounter - 1) :
          ~HasId(concepts, GenId(k)) => ~HasId(concepts', GenId(k))
     /\ \A c \in Requests :
          (/\ Started(c, "get") /\ ~InvalidId(req'[c].id)
           /\ ~HasId(concepts, ObjectId(req'[c].id))) =>
            req'[c].resp.status = 404
  ]_vars

\* The same id deleted twice, 200 then 404, the other record still stored.
C8_Witness ==
  \E c, d \in Requests :
    /\ req[c].op = "delete" /\ req[c].pc = "done" /\ req[c].resp.status = 200
    /\ req[d].op = "delete" /\ req[d].pc = "done" /\ req[d].resp.status = 404
    /\ req[c].id = req[d].id
    /\ req[c].oid = GenId(1)
    /\ concepts = <<SeedDoc(2)>>

(* ------------------------------ C9 ------------------------------------ *)
\* C9: Delete with a malformed id matches no record, leaves the store
\* unchanged and answers NotFound (404): not 400, not an unhandled failure.
C9_DeleteMalformedIsNotFound ==
  [][\A c \in Requests :
       (Started(c, "delete") /\ InvalidId(req'[c].id)) =>
         /\ req'[c].pc = "done" /\ req'[c].resp.status = 404
         /\ concepts' = concepts
  ]_vars

(* ------------------------------ C10 ----------------------------------- *)
\* C10: ListAll over a store of n records answers with min(n, 1000) of
\* them, each a stored record and no two the same, and leaves the store
\* as it was.
C10_ListCapped ==
  [][\A c \in Requests :
       Started(c, "list") =>
         LET out == req'[c].resp.body
             n == Len(concepts)
         IN /\ req'[c].pc = "done" /\ req'[c].resp.status = 200
            /\ Len(out) = IF n <= 1000 THEN n ELSE 1000
            /\ Range(out) \subseteq { ConceptResponse(concepts[j]) : j \in 1..n }
            /\ Cardinality({ out[i].id : i \in 1..Len(out) }) = Len(out)
            /\ UNCHANGED <<concepts, nextCounter, embedCalls>>
  ]_vars

\* A listing cut at the ceiling: more than 1000 stored, 1000 returned.
C10_Witness ==
  \E c \in Requests :
    /\ req[c].op = "list" /\ req[c].pc = "done"
    /\ Len(req[c].resp.body) = 1000
    /\ Len(concepts) > 1000

====
